---- MODULE Spec2Model ----
(***************************************************************************)
(* Delegate<_Rt(_Args...)> of src/src/Delegate.h, instantiated as          *)
(* Delegate<int(int, int)> as in the usage examples.  A delegate owns one  *)
(* std::vector<std::function<int(int,int)>>, m_invokationList.  Every      *)
(* public operation of the class is one action.                            *)
(***************************************************************************)
EXTENDS Integers, Sequences, FiniteSets, TLC

(* ---------------------------------------------------------------------- *)
(* Bounds                                                                  *)
(* ---------------------------------------------------------------------- *)

\* Total number of wrappers held by all delegates together.
MaxTotal == 4

\* Longest std::initializer_list handed to the list constructor.
MaxInit == 2

(* ---------------------------------------------------------------------- *)
(* Inputs                                                                  *)
(* ---------------------------------------------------------------------- *)

\* The delegate objects of the program (variables of type Delegate<int(int,int)>).
Delegates == {"d1", "d2"}

\* The delegate objects of a program that combines two delegates into a third.
DelegatesPlus == {"d1", "d2", "d3"}

\* Free functions int(int, int) of the examples; "sum" of
\* SimplestUsageExample.cpp is called add in the text of the examples.
Functions == {"add", "sub", "multiply"}

\* Free functions that the program registers by pointer.
RegisteredFunctions == {"add", "sub"}

\* What std::function<int(int,int)>::target<int(*)(int,int)>() returns for a
\* wrapper that does not hold a plain function pointer.
nullptr == "nullptr"

\* A std::function<int(int,int)>: origin "ptr" holds a plain function pointer
\* (the pointer is fn), origin "obj" holds a function object, a closure or a
\* bind expression that behaves like fn.
ptr(f) == [origin |-> "ptr", fn |-> f]
obj(f) == [origin |-> "obj", fn |-> f]

\* struct multiplier of SimplestUsageExample.cpp: a function object that
\* behaves like the free function multiply.
Callables == {obj("multiply")}

Wrappers == {ptr(f) : f \in RegisteredFunctions} \cup Callables

\* Argument tuples used by the examples: operation(5, 7) and operation(1, 2).
ArgTuples == {<<5, 7>>, <<1, 2>>}

VARIABLES
    m_invokationList,   \* [Delegates -> Seq(Wrappers)], the member of each delegate
    last,               \* the operation executed by the last step
    calls,              \* the wrapper calls made by the last step, in order
    returned,           \* what the last step returned or threw
    failed,             \* TRUE once the program has run into undefined behaviour
    frame               \* the invoke that is being executed step by step

vars == <<m_invokationList, last, calls, returned, failed, frame>>

(* ---------------------------------------------------------------------- *)
(* std::function and std::vector                                           *)
(* ---------------------------------------------------------------------- *)

\* (*func_iter)(params...): the value the wrapped callable returns.
Call(w, params) ==
    CASE w.fn = "add"      -> params[1] + params[2]
      [] w.fn = "sub"      -> params[1] - params[2]
      [] w.fn = "multiply" -> params[1] * params[2]
      [] OTHER             -> 0

\* Closures that capture the delegate d1 by reference and change it when
\* they are called: [&d1](int, int) { d1.clear(); return 0; }, and the same
\* with d1 -= sub and with d1 += sub.
ReentrantCallables == {obj("clear_d1"), obj("remove_d1"), obj("add_d1")}

\* A closure that ends by throwing instead of returning a value.
ThrowingCallables == {obj("raise")}

\* Whether the call of the wrapped callable ends by throwing.
Throws(w) == w.fn = "raise"

\* What a throwing wrapper throws: anything but DelegateInvocationException.
WrapperError == "WrapperError"

\* Variant of target: every wrapper gives back the function it behaves like.
target_any(w) == w.fn

\* it->target<c_function_type>(): the stored pointer, or nullptr when the
\* wrapper was not built from a plain function pointer.
target(w) == IF w.origin = "ptr" THEN w.fn ELSE nullptr

push_back(v, w) == Append(v, w)

\* vector::erase at the 0-based position pos0.
erase(v, pos0) == SubSeq(v, 1, pos0) \o SubSeq(v, pos0 + 2, Len(v))

\* vector::empty()
empty(v) == Len(v) = 0

\* All sequences over S of length at most n.
SeqsUpTo(S, n) == UNION {[1..k -> S] : k \in 0..n}

(* ---------------------------------------------------------------------- *)
(* CallableDetector (IsCallable.h)                                         *)
(* ---------------------------------------------------------------------- *)

\* The types handed to the trait: is_class is std::is_class_v<T>, call_ops is
\* the number of operator() members T declares.
FreeFunctionType == [name |-> "int(int,int)", is_class |-> FALSE, call_ops |-> 0]
PrimitiveType    == [name |-> "int",          is_class |-> FALSE, call_ops |-> 0]
FunctorType      == [name |-> "multiplier",   is_class |-> TRUE,  call_ops |-> 1]
PlainStructType  == [name |-> "plain",        is_class |-> TRUE,  call_ops |-> 0]

Types == {FreeFunctionType, PrimitiveType, FunctorType, PlainStructType}

\* Variant of _my_is_callable_impl: success and fail are taken for each other.
_my_is_callable_impl_swapped(T) ==
    LET candidates == T.call_ops + 1
        selected   == IF candidates = 1 THEN "fail" ELSE "success"
    IN  selected = "fail"

\* struct Derived : T, Fallback.  &Derived::operator() names one member only
\* when Fallback::operator() is the single candidate; then the overload
\* test(Check<void (Fallback::*)(), &C::operator()>*) is viable and, being
\* the non-variadic one, is selected: sizeof(fail).  Otherwise substitution
\* fails and test(...) is selected: sizeof(success).
_my_is_callable_impl(T) ==
    LET candidates == T.call_ops + 1
        selected   == IF candidates = 1 THEN "fail" ELSE "success"
    IN  selected = "success"

\* std::conditional<std::is_class_v<T>, _my_is_callable_impl<T>, std::false_type>
is_callable(T) == IF T.is_class THEN _my_is_callable_impl(T) ELSE FALSE

is_callable_v(T) == is_callable(T)

\* The static type of a function object the program passes by value.
TypeOf(w) == IF w.origin = "obj" THEN FunctorType ELSE FreeFunctionType

(* ---------------------------------------------------------------------- *)
(* Delegate: the member functions as functions of the invocation list      *)
(* ---------------------------------------------------------------------- *)

\* Variant of copy_vector: the copies wrap the callables anew and lose the
\* stored pointer type.
copy_vector_rewrapped(v) == [i \in 1..Len(v) |-> obj(v[i].fn)]

\* std::vector copy assignment: every std::function is copied, and a copy of
\* a std::function holds a copy of the same target.
copy_vector(v) == [i \in 1..Len(v) |-> v[i]]

\* Variant of move_vector: the source keeps its elements.
move_vector_keeps_source(src) == [dst |-> src, src |-> src]

\* this->m_invokationList = std::move(other.m_invokationList): the buffer of
\* the source is taken over and the source is left empty.
move_vector(src) == [dst |-> src, src |-> <<>>]

\* Delegate()
Delegate_default == <<>>

\* Delegate(function_type func)
Delegate_function(func) == push_back(Delegate_default, ptr(func))

RECURSIVE Delegate_list_loop(_, _)
Delegate_list_loop(v, list) ==
    IF list = <<>> THEN v
    ELSE Delegate_list_loop(push_back(v, Head(list)), Tail(list))

\* Delegate(std::initializer_list<std_function_type> list)
Delegate_list(list) == Delegate_list_loop(Delegate_default, list)

\* Delegate(const _delegate& copy)
Delegate_copy(copy) == copy_vector(copy)

\* Delegate(_delegate&& other): the new list and what is left in other.
Delegate_move(other) == move_vector(other)

\* template<class _Ty> Delegate(_Ty fn); compiles only if is_callable_v<_Ty>.
Delegate_callable(fn) ==
    IF is_callable_v(TypeOf(fn)) THEN push_back(Delegate_default, fn)
    ELSE Delegate_default

is_null(v) == empty(v)

\* add(function_type func)
add(v, func) == push_back(v, ptr(func))

RECURSIVE add_delegate_front(_, _)
\* Variant of add_delegate: every wrapper of other is put in front.
add_delegate_front(v, other) ==
    IF other = <<>> THEN v
    ELSE add_delegate_front(<<Head(other)>> \o v, Tail(other))

RECURSIVE add_delegate(_, _)
\* add(const _delegate& other), other a different object:
\* for (std_function_type func : other.m_invokationList) push_back(func)
add_delegate(v, other) ==
    IF other = <<>> THEN v
    ELSE add_delegate(push_back(v, Head(other)), Tail(other))

RECURSIVE remove_loop_forward(_, _, _)
\* Variant of remove_loop: the scan runs from begin() to end().
remove_loop_forward(v, r, func) ==
    IF r = Len(v) THEN v
    ELSE LET func_ptr == target(v[r + 1])
         IN  IF func_ptr # nullptr /\ func_ptr = func
             THEN erase(v, r)
             ELSE remove_loop_forward(v, r + 1, func)

RECURSIVE remove_loop(_, _, _)
\* The loop of remove; r counts the ++it done on the reverse iterator.
\* it.base() is the 0-based position Len(v) - r and *it is the element
\* before it; --it.base() is the position of *it.
remove_loop(v, r, func) ==
    IF r = Len(v) THEN v
    ELSE LET base     == Len(v) - r
             func_ptr == target(v[base])
         IN  IF func_ptr # nullptr /\ func_ptr = func
             THEN erase(v, base - 1)
             ELSE remove_loop(v, r + 1, func)

\* remove(function_type func)
remove(v, func) == IF is_null(v) THEN v ELSE remove_loop(v, 0, func)

\* Variant of clear: only the last wrapper is dropped.
clear_pop_back(v) == IF v = <<>> THEN v ELSE SubSeq(v, 1, Len(v) - 1)

\* clear()
clear(v) == <<>>

\* One call of a wrapper: its 0-based position, the wrapper, the arguments.
CallOf(v, pos0, params) == [pos |-> pos0, w |-> v[pos0 + 1], params |-> params]

RECURSIVE invoke_loop_to_end(_, _, _, _)
\* Variant of invoke_loop: the loop runs up to end() instead of end() - 1.
invoke_loop_to_end(v, func_iter, params, log) ==
    IF func_iter # Len(v)
    THEN LET called == Append(log, CallOf(v, func_iter, params))
         IN  IF Throws(v[func_iter + 1])
             THEN [threw |-> TRUE, log |-> called]
             ELSE invoke_loop_to_end(v, func_iter + 1, params, called)
    ELSE [threw |-> FALSE, log |-> log]

RECURSIVE invoke_loop_swallow(_, _, _, _)
\* Variant of invoke_loop: what a wrapper throws is caught and the loop goes on.
invoke_loop_swallow(v, func_iter, params, log) ==
    IF func_iter # Len(v) - 1
    THEN invoke_loop_swallow(v, func_iter + 1, params,
                             Append(log, CallOf(v, func_iter, params)))
    ELSE [threw |-> FALSE, log |-> log]

RECURSIVE invoke_loop(_, _, _, _)
\* for (func_iter = begin(); func_iter != end() - 1; ++func_iter)
\*     (*func_iter)(params...);
\* There is no try block: what a wrapper throws leaves the loop at once.
invoke_loop(v, func_iter, params, log) ==
    IF func_iter # Len(v) - 1
    THEN LET called == Append(log, CallOf(v, func_iter, params))
         IN  IF Throws(v[func_iter + 1])
             THEN [threw |-> TRUE, log |-> called]
             ELSE invoke_loop(v, func_iter + 1, params, called)
    ELSE [threw |-> FALSE, log |-> log]

\* return (*last_func)(params...) after a loop that ended as loop.
invoke_last(v, params, loop) ==
    LET last_func == Len(v) - 1
        called    == Append(loop.log, CallOf(v, last_func, params))
    IN  IF loop.threw
        THEN [threw |-> TRUE, what |-> WrapperError, calls |-> loop.log, value |-> 0]
        ELSE IF Throws(v[last_func + 1])
        THEN [threw |-> TRUE, what |-> WrapperError, calls |-> called, value |-> 0]
        ELSE [threw |-> FALSE, what |-> "", calls |-> called,
              value |-> Call(v[last_func + 1], params)]

\* Variant of invoke: the guard is size() <= 1 instead of is_null().
invoke_guard_one(v, params) ==
    IF Len(v) <= 1
    THEN [threw |-> TRUE, what |-> "DelegateInvocationException",
          calls |-> <<>>, value |-> 0]
    ELSE invoke_last(v, params, invoke_loop(v, 0, params, <<>>))

\* invoke(_Args... params): whether it ended by an exception and which, the
\* calls it made, and the value it returned.
invoke(v, params) ==
    IF is_null(v)
    THEN [threw |-> TRUE, what |-> "DelegateInvocationException",
          calls |-> <<>>, value |-> 0]
    ELSE invoke_last(v, params, invoke_loop(v, 0, params, <<>>))

\* operator=(const _delegate& copy)
assign_copy(v, copy) == copy_vector(copy)

\* Variant of assign_function: the old list is not cleared.
assign_function_no_clear(v, func) == push_back(v, ptr(func))

\* operator=(function_type& func)
assign_function(v, func) == push_back(clear(v), ptr(func))

\* operator=(std_function_type& func)
assign_std_function(v, func) == push_back(clear(v), func)

\* Variant of operator_plus: the right operand is added first.
operator_plus_swapped(this, rhs) ==
    LET other == Delegate_copy(rhs)
        res   == Delegate_default
    IN  add_delegate(add_delegate(res, other), this)

\* operator+(_delegate other): other is a copy of the right operand.
operator_plus(this, rhs) ==
    LET other == Delegate_copy(rhs)
        res   == Delegate_default
    IN  add_delegate(add_delegate(res, this), other)

\* operator=(_delegate&& other) on two different objects (this != &other).
assign_move(v, other) == move_vector(other)

\* d = <function object>: no operator= takes it directly, so a temporary
\* Delegate is built by the generic constructor and move-assigned.
assign_callable(v, fn) == assign_move(v, Delegate_callable(fn)).dst

\* add(<function object>): the argument converts to a temporary Delegate
\* through the generic constructor and add(const _delegate&) is called.
add_callable(v, fn) == add_delegate(v, Delegate_callable(fn))

(* ---------------------------------------------------------------------- *)
(* State machine                                                           *)
(* ---------------------------------------------------------------------- *)

Op(op, self, other, func, ws, params) ==
    [op |-> op, self |-> self, other |-> other, func |-> func,
     ws |-> ws, params |-> params]

RetNone     == [kind |-> "none",  d |-> "", v |-> 0, b |-> FALSE]
RetRef(d)   == [kind |-> "ref",   d |-> d,  v |-> 0, b |-> FALSE]
RetNew(d)   == [kind |-> "new",   d |-> d,  v |-> 0, b |-> FALSE]
RetValue(v) == [kind |-> "value", d |-> "", v |-> v, b |-> FALSE]
RetBool(b)  == [kind |-> "bool",  d |-> "", v |-> 0, b |-> b]
\* throw DelegateInvocationException("Failed to invoke delegate")
RetThrow    == [kind |-> "throw", d |-> "DelegateInvocationException", v |-> 0, b |-> FALSE]
\* An exception of the class what leaves the operation.
RetThrowOf(what) == [kind |-> "throw", d |-> what, v |-> 0, b |-> FALSE]

RECURSIVE SumLen(_, _)
SumLen(l, S) ==
    IF S = {} THEN 0
    ELSE LET d == CHOOSE x \in S : TRUE IN Len(l[d]) + SumLen(l, S \ {d})

\* The lists stay within the bound of the model.
Fits(l) == SumLen(l, DOMAIN l) <= MaxTotal

\* The effect of one completed operation.
Step(o, l, c, r) ==
    /\ Fits(l)
    /\ m_invokationList' = l
    /\ last' = o
    /\ calls' = c
    /\ returned' = r
    /\ failed' = FALSE
    /\ frame' = frame

\* The list of self becomes v, every other delegate keeps its list.
With(self, v) == [m_invokationList EXCEPT ![self] = v]

\* No invoke is being executed.
NoFrame ==
    [active |-> FALSE, self |-> "", params |-> <<>>, func_iter |-> 0,
     start |-> <<>>]

InitOver(D) ==
    /\ m_invokationList = [d \in D |-> Delegate_default]
    /\ last = Op("init", "", "", "", <<>>, <<>>)
    /\ calls = <<>>
    /\ returned = RetNone
    /\ failed = FALSE
    /\ frame = NoFrame

Init == InitOver(Delegates)

\* The constructors build the object in the slot self; what the slot held
\* before has gone out of scope.
Ctor_default(self) ==
    /\ ~failed
    /\ Step(Op("ctor_default", self, "", "", <<>>, <<>>),
            With(self, Delegate_default), <<>>, RetNone)

Ctor_function(self, func) ==
    /\ ~failed
    /\ Step(Op("ctor_function", self, "", func, <<>>, <<>>),
            With(self, Delegate_function(func)), <<>>, RetNone)

Ctor_list(self, list) ==
    /\ ~failed
    /\ Step(Op("ctor_list", self, "", "", list, <<>>),
            With(self, Delegate_list(list)), <<>>, RetNone)

Ctor_copy(self, copy) ==
    /\ ~failed
    /\ self # copy
    /\ Step(Op("ctor_copy", self, copy, "", <<>>, <<>>),
            With(self, Delegate_copy(m_invokationList[copy])), <<>>, RetNone)

Ctor_move(self, other) ==
    /\ ~failed
    /\ self # other
    /\ LET m == Delegate_move(m_invokationList[other])
       IN  Step(Op("ctor_move", self, other, "", <<>>, <<>>),
                [m_invokationList EXCEPT ![self] = m.dst, ![other] = m.src],
                <<>>, RetNone)

Ctor_callable(self, fn) ==
    /\ ~failed
    /\ is_callable_v(TypeOf(fn))
    /\ Step(Op("ctor_callable", self, "", "", <<fn>>, <<>>),
            With(self, Delegate_callable(fn)), <<>>, RetNone)

Is_null(self) ==
    /\ ~failed
    /\ Step(Op("is_null", self, "", "", <<>>, <<>>),
            m_invokationList, <<>>, RetBool(is_null(m_invokationList[self])))

\* add(function_type func)
Add_function(self, func) ==
    /\ ~failed
    /\ Step(Op("add_function", self, "", func, <<>>, <<>>),
            With(self, add(m_invokationList[self], func)), <<>>, RetRef(self))

\* add(<function object>)
Add_callable(self, fn) ==
    /\ ~failed
    /\ is_callable_v(TypeOf(fn))
    /\ Step(Op("add_callable", self, "", "", <<fn>>, <<>>),
            With(self, add_callable(m_invokationList[self], fn)), <<>>, RetRef(self))

\* add(const _delegate& other).  With other the same object as *this the
\* loop iterates over the vector it appends to: push_back invalidates the
\* iterators of the loop, the past-the-end iterator included.  An empty list
\* is never appended to; for any other list the loop goes on through
\* invalidated iterators (it increments and compares them, and after a
\* reallocation reads the old storage), and the build either finds the old
\* elements still in place or fails.
Add_delegate(self, other) ==
    LET v == m_invokationList[self]
        o == Op("add_delegate", self, other, "", <<>>, <<>>)
    IN  /\ ~failed
        /\ \/ /\ self # other
              /\ Step(o, With(self, add_delegate(v, m_invokationList[other])),
                      <<>>, RetRef(self))
           \/ /\ self = other
              /\ Step(o, With(self, add_delegate(v, v)), <<>>, RetRef(self))
           \/ /\ self = other
              /\ Len(v) >= 1
              /\ Fits(With(self, add_delegate(v, v)))
              /\ failed' = TRUE
              /\ last' = o
              /\ calls' = <<>>
              /\ returned' = RetNone
              /\ UNCHANGED <<m_invokationList, frame>>

\* remove(function_type func)
Remove(self, func) ==
    /\ ~failed
    /\ Step(Op("remove", self, "", func, <<>>, <<>>),
            With(self, remove(m_invokationList[self], func)), <<>>, RetRef(self))

Clear(self) ==
    /\ ~failed
    /\ Step(Op("clear", self, "", "", <<>>, <<>>),
            With(self, clear(m_invokationList[self])), <<>>, RetRef(self))

\* invoke(_Args... params)
Invoke(self, params) ==
    LET r == invoke(m_invokationList[self], params)
    IN  /\ ~failed
        /\ Step(Op("invoke", self, "", "", <<>>, params),
                m_invokationList, r.calls,
                IF r.threw THEN RetThrowOf(r.what) ELSE RetValue(r.value))

Assign_copy(self, copy) ==
    /\ ~failed
    /\ Step(Op("assign_copy", self, copy, "", <<>>, <<>>),
            With(self, assign_copy(m_invokationList[self], m_invokationList[copy])),
            <<>>, RetRef(self))

Assign_function(self, func) ==
    /\ ~failed
    /\ Step(Op("assign_function", self, "", func, <<>>, <<>>),
            With(self, assign_function(m_invokationList[self], func)),
            <<>>, RetRef(self))

Assign_std_function(self, func) ==
    /\ ~failed
    /\ Step(Op("assign_std_function", self, "", "", <<func>>, <<>>),
            With(self, assign_std_function(m_invokationList[self], func)),
            <<>>, RetRef(self))

Assign_callable(self, fn) ==
    /\ ~failed
    /\ is_callable_v(TypeOf(fn))
    /\ Step(Op("assign_callable", self, "", "", <<fn>>, <<>>),
            With(self, assign_callable(m_invokationList[self], fn)),
            <<>>, RetRef(self))

\* operator=(_delegate&&): if (this != &other) move, else nothing.
Assign_move(self, other) ==
    LET o == Op("assign_move", self, other, "", <<>>, <<>>)
    IN  /\ ~failed
        /\ \/ /\ self # other
              /\ LET m == assign_move(m_invokationList[self], m_invokationList[other])
                 IN  Step(o, [m_invokationList EXCEPT ![self] = m.dst, ![other] = m.src],
                          <<>>, RetRef(self))
           \/ /\ self = other
              /\ Step(o, m_invokationList, <<>>, RetRef(self))

\* operator+=(function_type func) { return this->add(func); }
Operator_plus_eq_function(self, func) ==
    /\ ~failed
    /\ Add_function(self, func)

\* template operator+=(_callable func) { return this->add(func); }
Operator_plus_eq_callable(self, fn) ==
    /\ ~failed
    /\ Add_callable(self, fn)

\* operator+=(_delegate& other) { return this->add(other); }
Operator_plus_eq_delegate(self, other) ==
    /\ ~failed
    /\ Add_delegate(self, other)

\* operator-=(function_type func) { return this->remove(func); }
Operator_minus_eq(self, func) ==
    /\ ~failed
    /\ Remove(self, func)

\* operator()(_Args... params) { return this->invoke(params...); }
Operator_call(self, params) ==
    /\ ~failed
    /\ Invoke(self, params)

\* r = a + b: the returned delegate is a new object, built in the slot r.
Operator_plus(r, self, other) ==
    /\ ~failed
    /\ r # self
    /\ r # other
    /\ Step(Op("operator_plus", self, other, "", <<>>, <<>>),
            With(r, operator_plus(m_invokationList[self], m_invokationList[other])),
            <<>>, RetNew(r))

Next ==
    \/ \E self \in Delegates : Ctor_default(self)
    \/ \E self \in Delegates, func \in RegisteredFunctions : Ctor_function(self, func)
    \/ \E self \in Delegates, list \in SeqsUpTo(Wrappers, MaxInit) : Ctor_list(self, list)
    \/ \E self, copy \in Delegates : Ctor_copy(self, copy)
    \/ \E self, other \in Delegates : Ctor_move(self, other)
    \/ \E self \in Delegates, fn \in Callables : Ctor_callable(self, fn)
    \/ \E self \in Delegates : Is_null(self)
    \/ \E self \in Delegates, func \in RegisteredFunctions : Add_function(self, func)
    \/ \E self \in Delegates, fn \in Callables : Add_callable(self, fn)
    \/ \E self, other \in Delegates : Add_delegate(self, other)
    \/ \E self \in Delegates, func \in Functions : Remove(self, func)
    \/ \E self \in Delegates : Clear(self)
    \/ \E self \in Delegates, params \in ArgTuples : Invoke(self, params)
    \/ \E self, copy \in Delegates : Assign_copy(self, copy)
    \/ \E self \in Delegates, func \in RegisteredFunctions : Assign_function(self, func)
    \/ \E self \in Delegates, func \in Wrappers : Assign_std_function(self, func)
    \/ \E self \in Delegates, fn \in Callables : Assign_callable(self, fn)
    \/ \E self, other \in Delegates : Assign_move(self, other)
    \/ \E self \in Delegates, func \in RegisteredFunctions : Operator_plus_eq_function(self, func)
    \/ \E self \in Delegates, fn \in Callables : Operator_plus_eq_callable(self, fn)
    \/ \E self, other \in Delegates : Operator_plus_eq_delegate(self, other)
    \/ \E self \in Delegates, func \in Functions : Operator_minus_eq(self, func)
    \/ \E self \in Delegates, params \in ArgTuples : Operator_call(self, params)
    \/ \E r, self, other \in Delegates : Operator_plus(r, self, other)

Spec == Init /\ [][Next]_vars

\* A program with three delegates that builds two of them and combines them.
InitPlus == InitOver(DelegatesPlus)

NextPlus ==
    \/ \E self \in DelegatesPlus, func \in RegisteredFunctions : Add_function(self, func)
    \/ \E self \in DelegatesPlus, fn \in Callables : Add_callable(self, fn)
    \/ \E self \in DelegatesPlus, func \in RegisteredFunctions : Remove(self, func)
    \/ \E self \in DelegatesPlus : Clear(self)
    \/ \E self \in DelegatesPlus : Invoke(self, <<5, 7>>)
    \/ \E r, self, other \in DelegatesPlus : Operator_plus(r, self, other)

SpecPlus == InitPlus /\ [][NextPlus]_vars

\* A value of the type T, wrapped: only a function object can be wrapped by
\* the generic constructor.
ValueOf(T) == IF T = FunctorType THEN <<obj("multiply")>> ELSE <<>>

\* The outcome of building Delegate d(value) with _Ty = T: the value of the
\* trait and whether static_assert(is_callable_v<_Ty>) let the build pass.
RetBuild(ok) ==
    [kind |-> "build", d |-> IF ok THEN "compiled" ELSE "static_assert",
     v |-> 0, b |-> ok]

\* template<class _Ty> Delegate(_Ty fn) instantiated with _Ty = T.  A type
\* that fails the static_assert is rejected when the program is built: no
\* delegate is constructed.
Ctor_generic(self, T) ==
    LET o == Op("ctor_generic", self, "", T.name, ValueOf(T), <<>>)
    IN  /\ ~failed
        /\ \/ /\ is_callable_v(T)
              /\ Step(o, With(self, Delegate_callable(ValueOf(T)[1])),
                      <<>>, RetBuild(TRUE))
           \/ /\ ~is_callable_v(T)
              /\ Step(o, m_invokationList, <<>>, RetBuild(FALSE))

\* A program that builds delegates from values of every kind of type.
NextCallable ==
    \/ \E self \in Delegates, T \in Types : Ctor_generic(self, T)
    \/ \E self \in Delegates, func \in RegisteredFunctions : Add_function(self, func)
    \/ \E self \in Delegates : Clear(self)
    \/ \E self \in Delegates, params \in ArgTuples : Invoke(self, params)

SpecCallable == Init /\ [][NextCallable]_vars

(* ---------------------------------------------------------------------- *)
(* invoke, one iteration of its loop at a time                             *)
(* ---------------------------------------------------------------------- *)

RECURSIVE remove_erased(_, _, _)
\* The 0-based position that the loop of remove hands to erase, -1 when the
\* loop ends without a match.
remove_erased(v, r, func) ==
    IF r = Len(v) THEN -1
    ELSE LET base     == Len(v) - r
             func_ptr == target(v[base])
         IN  IF func_ptr # nullptr /\ func_ptr = func
             THEN base - 1
             ELSE remove_erased(v, r + 1, func)

\* What the call of the wrapper w does to the lists while invoke of self is
\* at the 0-based position func_iter, and what it does to that iterator:
\*   "valid"  the iterator still points at its element;
\*   "moved"  clear or erase at or before the iterator: the storage is kept
\*            but the iterator is invalidated;
\*   "freed"  push_back reallocated: the iterator points into freed storage.
\* Whether push_back reallocates depends on the capacity, which the earlier
\* push_backs and erases of the program leave at any value >= size.
Reenter(w, self, func_iter) ==
    LET v1 == m_invokationList["d1"]
        on == self = "d1"
    IN  CASE w = obj("clear_d1") ->
                 {[l |-> With("d1", clear(v1)),
                   it |-> IF on THEN "moved" ELSE "valid"]}
          [] w = obj("remove_d1") ->
                 LET pos == IF is_null(v1) THEN -1 ELSE remove_erased(v1, 0, "sub")
                 IN  {[l |-> With("d1", remove(v1, "sub")),
                       it |-> IF on /\ pos >= 0 /\ pos <= func_iter
                              THEN "moved" ELSE "valid"]}
          [] w = obj("add_d1") ->
                 {[l |-> With("d1", add(v1, "sub")), it |-> state] :
                      state \in IF on THEN {"valid", "freed"} ELSE {"valid"}}
          [] OTHER -> {[l |-> m_invokationList, it |-> "valid"]}

\* invoke(params...) up to the first test of the loop.
Invoke_begin(self, params) ==
    LET v == m_invokationList[self]
        o == Op("invoke_begin", self, "", "", <<>>, params)
    IN  /\ ~failed
        /\ ~frame.active
        /\ \/ /\ is_null(v)
              /\ Step(o, m_invokationList, <<>>, RetThrow)
           \/ /\ ~is_null(v)
              /\ frame' = [active |-> TRUE, self |-> self, params |-> params,
                           func_iter |-> 0, start |-> v]
              /\ last' = o
              /\ calls' = <<>>
              /\ returned' = RetNone
              /\ UNCHANGED <<m_invokationList, failed>>

\* One round of the loop of invoke: the test func_iter != end() - 1 against
\* the list as it is now, the call (*func_iter)(params...) with whatever the
\* wrapper does to the lists, and ++func_iter; or, when the test ends the
\* loop, last_func = end() - 1 and return (*last_func)(params...).
Invoke_step ==
    LET self      == frame.self
        v         == m_invokationList[self]
        func_iter == frame.func_iter
        params    == frame.params
        called    == Append(calls, CallOf(v, func_iter, params))
    IN  /\ ~failed
        /\ frame.active
        /\ \/ /\ func_iter = Len(v) - 1
              /\ \E e \in Reenter(v[func_iter + 1], self, func_iter) :
                    /\ Fits(e.l)
                    /\ m_invokationList' = e.l
              /\ last' = Op("invoke_end", self, "", "", <<>>, params)
              /\ calls' = called
              /\ returned' = RetValue(Call(v[func_iter + 1], params))
              /\ failed' = FALSE
              /\ frame' = NoFrame
           \/ /\ func_iter # Len(v) - 1
              /\ func_iter < Len(v)
              /\ \E e \in Reenter(v[func_iter + 1], self, func_iter) :
                    /\ Fits(e.l)
                    /\ m_invokationList' = e.l
                    /\ \/ /\ e.it \in {"valid", "moved"}
                          /\ failed' = FALSE
                          /\ frame' = [frame EXCEPT !.func_iter = func_iter + 1]
                       \/ /\ e.it \in {"moved", "freed"}
                          /\ failed' = TRUE
                          /\ frame' = frame
              /\ last' = Op("invoke_step", self, "", "", <<>>, params)
              /\ calls' = called
              /\ returned' = RetNone
           \/ /\ func_iter # Len(v) - 1
              /\ func_iter >= Len(v)
              /\ failed' = TRUE
              /\ last' = Op("invoke_step", self, "", "", <<>>, params)
              /\ UNCHANGED <<m_invokationList, calls, returned, frame>>

\* The statements of the program between two invokes.
Main_add_function(self, func) ==
    /\ ~frame.active
    /\ Add_function(self, func)

Main_add_callable(self, fn) ==
    /\ ~frame.active
    /\ Add_callable(self, fn)

Main_clear(self) ==
    /\ ~frame.active
    /\ Clear(self)

\* A program that registers closures which change the delegate they are
\* registered with, and invokes.
NextReentrant ==
    \/ \E self \in Delegates : Main_add_function(self, "sub")
    \/ \E self \in Delegates, fn \in ReentrantCallables : Main_add_callable(self, fn)
    \/ \E self \in Delegates : Main_clear(self)
    \/ \E self \in Delegates : Invoke_begin(self, <<5, 7>>)
    \/ Invoke_step

SpecReentrant == Init /\ [][NextReentrant]_vars

\* A program that also registers a closure that throws.
NextThrow ==
    \/ \E self \in Delegates, func \in RegisteredFunctions : Add_function(self, func)
    \/ \E self \in Delegates, fn \in ThrowingCallables : Add_callable(self, fn)
    \/ \E self \in Delegates, func \in RegisteredFunctions : Remove(self, func)
    \/ \E self \in Delegates : Clear(self)
    \/ \E self \in Delegates, params \in ArgTuples : Invoke(self, params)
    \/ \E self \in Delegates, params \in ArgTuples : Operator_call(self, params)

SpecThrow == Init /\ [][NextThrow]_vars

(* ---------------------------------------------------------------------- *)
(* Vocabulary of the properties                                            *)
(* ---------------------------------------------------------------------- *)

\* Positions (1-based) of the pointer-origin wrappers of v whose pointer is f.
Matches(v, f) == {i \in 1..Len(v) : v[i].origin = "ptr" /\ v[i].fn = f}

Max(S) == CHOOSE x \in S : \A y \in S : y <= x

\* v with the element at position k taken out.
WithoutIndex(v, k) == [j \in 1..(Len(v) - 1) |-> IF j < k THEN v[j] ELSE v[j + 1]]

\* The free functions behind the wrappers of v, in order.
FnsOf(v) == [i \in 1..Len(v) |-> v[i].fn]

\* Every delegate except those of S has the same list before and after the step.
OthersUnchanged(S) ==
    \A d \in DOMAIN m_invokationList :
        d \notin S => m_invokationList'[d] = m_invokationList[d]

(* ---------------------------------------------------------------------- *)
(* Properties                                                              *)
(* ---------------------------------------------------------------------- *)

\* C1: invoke (and the call operator) on a non-empty list calls every wrapper
\* exactly once, in insertion order (position 0 first), each with the same
\* arguments, and returns what the wrapper at the last position returns;
\* [add, sub, multiply] invoked with (5, 7) returns 35.
C1_InvokeCallsAllInOrder ==
    (last.op = "invoke" /\ m_invokationList[last.self] # <<>>) =>
        LET v == m_invokationList[last.self]
        IN  /\ Len(calls) = Len(v)
            /\ \A i \in 1..Len(v) :
                   /\ calls[i].pos = i - 1
                   /\ calls[i].w = v[i]
                   /\ calls[i].params = last.params
            /\ returned.kind = "value"
            /\ returned.v = Call(v[Len(v)], last.params)
            /\ (FnsOf(v) = <<"add", "sub", "multiply">> /\ last.params = <<5, 7>>)
                   => returned.v = 35

C1_Witness ==
    /\ last.op = "invoke"
    /\ last.params = <<5, 7>>
    /\ FnsOf(m_invokationList[last.self]) = <<"add", "sub", "multiply">>
    /\ Len(calls) = 3
    /\ returned.kind = "value"
    /\ returned.v = 35

\* C2: invoke throws DelegateInvocationException if and only if the list is
\* empty at the moment of the call; when it throws, no wrapper has been
\* called and the list is still empty.
C2_ThrowsIffEmpty ==
    [][ last'.op = "invoke" =>
          LET before == m_invokationList[last'.self]
              threw  == returned'.kind = "throw"
                          /\ returned'.d = "DelegateInvocationException"
          IN  /\ threw <=> (before = <<>>)
              /\ threw => (calls' = <<>> /\ m_invokationList'[last'.self] = <<>>)
              /\ ~threw => (returned'.kind = "value" /\ calls' # <<>>) ]_vars

C2_Witness ==
    /\ last.op = "invoke"
    /\ returned.kind = "throw"
    /\ returned.d = "DelegateInvocationException"
    /\ m_invokationList[last.self] = <<>>
    /\ calls = <<>>

\* C3: remove(f) on a list with pointer-origin wrappers of f at positions
\* i1 < ... < ik deletes exactly the element at ik: the length drops by one,
\* every other element stays, in the same order, and no other delegate changes.
C3_RemoveLastMatch ==
    [][ last'.op = "remove" =>
          LET v == m_invokationList[last'.self]
              M == Matches(v, last'.func)
          IN  M # {} =>
                /\ m_invokationList'[last'.self] = WithoutIndex(v, Max(M))
                /\ Len(m_invokationList'[last'.self]) = Len(v) - 1
                /\ Cardinality(Matches(m_invokationList'[last'.self], last'.func))
                       = Cardinality(M) - 1
                /\ OthersUnchanged({last'.self})
                /\ returned' = RetRef(last'.self) ]_vars

\* After remove(f) the list still holds a wrapper of f behind another
\* element: f was registered more than once and an earlier one stayed.
C3_Witness ==
    /\ last.op = "remove"
    /\ Len(m_invokationList[last.self]) = 2
    /\ m_invokationList[last.self][1] = ptr(last.func)
    /\ m_invokationList[last.self][2] # ptr(last.func)

\* C4: remove(f) changes no list and raises no error when no element is a
\* pointer-origin wrapper of f, also on the empty list and when a function
\* object that behaves like f is in the list.
C4_RemoveNoMatch ==
    [][ (last'.op = "remove"
           /\ Matches(m_invokationList[last'.self], last'.func) = {}) =>
          /\ m_invokationList' = m_invokationList
          /\ returned' = RetRef(last'.self)
          /\ failed' = FALSE ]_vars

C4_Witness ==
    /\ last.op = "remove"
    /\ last.func = "multiply"
    /\ returned = RetRef(last.self)
    /\ \E i \in 1..Len(m_invokationList[last.self]) :
           m_invokationList[last.self][i] = obj("multiply")

\* C5: a + b (a and b may be the same delegate) builds a new delegate whose
\* list is a's list followed by b's list; a and b keep their lists, and no
\* later add, remove, clear or invoke on one delegate changes another one.
C5_PlusConcatenates ==
    [][ /\ last'.op = "operator_plus" =>
              /\ returned'.kind = "new"
              /\ returned'.d \notin {last'.self, last'.other}
              /\ m_invokationList'[returned'.d]
                     = m_invokationList[last'.self] \o m_invokationList[last'.other]
              /\ OthersUnchanged({returned'.d})
        /\ last'.op \in {"add_function", "add_callable",
                         "remove", "clear", "invoke"} =>
              OthersUnchanged({last'.self}) ]_vars

C5_Witness ==
    /\ last.op = "operator_plus"
    /\ last.self # last.other
    /\ returned.kind = "new"
    /\ m_invokationList[last.self] # <<>>
    /\ m_invokationList[last.other] # <<>>
    /\ m_invokationList[last.self] # m_invokationList[last.other]
    /\ m_invokationList[returned.d]
           = m_invokationList[last.self] \o m_invokationList[last.other]

\* C6: add(other) and += with another delegate other make the list the old
\* list followed by the wrappers of other in other's order; the length
\* grows by the length of other's list, other keeps its list, and the call
\* returns this delegate.
C6_AddDelegateAppends ==
    [][ (last'.op = "add_delegate" /\ last'.self # last'.other) =>
          LET v == m_invokationList[last'.self]
              o == m_invokationList[last'.other]
          IN  /\ m_invokationList'[last'.self] = v \o o
              /\ Len(m_invokationList'[last'.self]) = Len(v) + Len(o)
              /\ m_invokationList'[last'.other] = o
              /\ OthersUnchanged({last'.self})
              /\ returned' = RetRef(last'.self)
              /\ failed' = FALSE ]_vars

C6_Witness ==
    /\ last.op = "add_delegate"
    /\ last.self # last.other
    /\ returned = RetRef(last.self)
    /\ Len(m_invokationList[last.other]) = 1
    /\ Len(m_invokationList[last.self]) = 3
    /\ m_invokationList[last.self][3] = m_invokationList[last.other][1]
    /\ m_invokationList[last.self][1] # m_invokationList[last.other][1]
    /\ m_invokationList[last.self][2] # m_invokationList[last.other][1]

\* C7: after copy-construction or copy-assignment the target's list equals
\* the source's list, element by element and in order, identity of the
\* pointer-origin wrappers included, and the source keeps its list; any
\* add, remove, clear or assignment changes only the list it is applied to
\* (and empties the source it moves from).
C7_CopyEqualAndIndependent ==
    [][ /\ last'.op \in {"ctor_copy", "assign_copy"} =>
              /\ m_invokationList'[last'.self] = m_invokationList[last'.other]
              /\ m_invokationList'[last'.other] = m_invokationList[last'.other]
              /\ \A i \in 1..Len(m_invokationList[last'.other]) :
                     target(m_invokationList'[last'.self][i])
                         = target(m_invokationList[last'.other][i])
        /\ last'.op \in {"add_function", "add_callable", "add_delegate", "remove",
                         "clear", "assign_copy", "assign_function",
                         "assign_std_function", "assign_callable"} =>
              OthersUnchanged({last'.self})
        /\ last'.op = "assign_move" =>
              OthersUnchanged({last'.self, last'.other}) ]_vars

C7_Witness ==
    /\ last.op \in {"ctor_copy", "assign_copy"}
    /\ last.self # last.other
    /\ Len(m_invokationList[last.self]) = 2
    /\ m_invokationList[last.self] = m_invokationList[last.other]
    /\ m_invokationList[last.self][1].origin = "ptr"
    /\ m_invokationList[last.self][2].origin = "obj"

\* C8: after move-construction or move-assignment from a different delegate
\* the target's list is the source's previous list and the source is empty
\* (is_null() holds on it); move-assigning a delegate to itself leaves its
\* list unchanged.
C8_MoveTransfers ==
    [][ /\ (last'.op \in {"ctor_move", "assign_move"} /\ last'.self # last'.other) =>
              /\ m_invokationList'[last'.self] = m_invokationList[last'.other]
              /\ m_invokationList'[last'.other] = <<>>
              /\ is_null(m_invokationList'[last'.other])
              /\ OthersUnchanged({last'.self, last'.other})
        /\ (last'.op = "assign_move" /\ last'.self = last'.other) =>
              m_invokationList' = m_invokationList ]_vars

C8_Witness ==
    /\ last.op \in {"ctor_move", "assign_move"}
    /\ last.self # last.other
    /\ Len(m_invokationList[last.self]) >= 2
    /\ m_invokationList[last.other] = <<>>

\* The callable handed to the last single-callable assignment.
AssignedCallable(o) ==
    IF o.op = "assign_function" THEN ptr(o.func) ELSE o.ws[1]

AssignOps == {"assign_function", "assign_std_function", "assign_callable"}

\* C9: assigning a single callable leaves the list with exactly that one
\* element, whatever the list was; an invoke that follows calls only that
\* callable and returns its result (assign add, then invoke(1, 2): 3).
C9_AssignSingleCallable ==
    [][ /\ last'.op \in AssignOps =>
              /\ m_invokationList'[last'.self] = <<AssignedCallable(last')>>
              /\ OthersUnchanged({last'.self})
        /\ (last.op \in AssignOps /\ last'.op = "invoke" /\ last'.self = last.self) =>
              /\ Len(calls') = 1
              /\ calls'[1].w = AssignedCallable(last)
              /\ returned' = RetValue(Call(AssignedCallable(last), last'.params))
              /\ (AssignedCallable(last).fn = "add" /\ last'.params = <<1, 2>>)
                     => returned'.v = 3 ]_vars

C9_Witness ==
    /\ last.op = "assign_function"
    /\ last.func = "add"
    /\ m_invokationList[last.self] = <<ptr("add")>>
    /\ returned = RetRef(last.self)

\* C10: is_null() is true exactly when the list is empty; it is true right
\* after clear() and false right after add(callable), also on a delegate
\* that was empty.
C10_IsNullIffEmpty ==
    /\ last.op = "is_null" =>
           /\ returned.kind = "bool"
           /\ returned.b <=> (m_invokationList[last.self] = <<>>)
    /\ last.op = "clear" =>
           (m_invokationList[last.self] = <<>> /\ is_null(m_invokationList[last.self]))
    /\ last.op \in {"add_function", "add_callable"} =>
           (m_invokationList[last.self] # <<>> /\ ~is_null(m_invokationList[last.self]))
    /\ \A d \in DOMAIN m_invokationList :
           is_null(m_invokationList[d]) <=> (m_invokationList[d] = <<>>)

C10_Witness ==
    /\ last.op = "add_function"
    /\ Len(m_invokationList[last.self]) = 1
    /\ ~is_null(m_invokationList[last.self])

\* Positions (1-based) of the wrappers of v that throw when called.
Throwers(v) == {i \in 1..Len(v) : Throws(v[i])}

Min(S) == CHOOSE x \in S : \A y \in S : x <= y

\* C11: when the wrapper at position j throws during invoke, the wrappers at
\* positions 0..j have each been called once, in order, none behind j is
\* called, the error reaches the caller, and the list is as before; no
\* invoke, successful or not, changes an invocation list.
C11_WrapperErrorPropagates ==
    [][ last'.op = "invoke" =>
          LET v == m_invokationList[last'.self]
              T == Throwers(v)
          IN  /\ m_invokationList' = m_invokationList
              /\ T # {} =>
                    /\ returned' = RetThrowOf(WrapperError)
                    /\ Len(calls') = Min(T)
                    /\ \A i \in 1..Min(T) :
                           /\ calls'[i].pos = i - 1
                           /\ calls'[i].w = v[i]
                           /\ calls'[i].params = last'.params
              /\ (T = {} /\ v # <<>>) =>
                    (returned'.kind = "value" /\ Len(calls') = Len(v)) ]_vars

\* The second of three wrappers threw: two calls were made, the third
\* wrapper was not called, and the list still has its three wrappers.
C11_Witness ==
    /\ last.op = "invoke"
    /\ returned = RetThrowOf(WrapperError)
    /\ Len(m_invokationList[last.self]) = 3
    /\ Throwers(m_invokationList[last.self]) = {2}
    /\ Len(calls) = 2
    /\ calls[2].pos = 1

\* The classification the trait is to give, by the name of the type.
ExpectedCallable(name) ==
    CASE name = "int(int,int)" -> FALSE
      [] name = "int"          -> FALSE
      [] name = "multiplier"   -> TRUE
      [] name = "plain"        -> FALSE

\* C12: is_callable classifies a free-function type as false, a primitive
\* type as false, a struct with a call operator as true and a struct without
\* one as false; the generic constructor accepts a value only when its type
\* is classified true.
C12_CallableDetector ==
    /\ last.op = "ctor_generic" =>
           /\ returned.kind = "build"
           /\ returned.b = ExpectedCallable(last.func)
           /\ (returned.d = "compiled") <=> ExpectedCallable(last.func)
           /\ returned.d = "compiled" =>
                  m_invokationList[last.self] = <<obj("multiply")>>
    /\ \A T \in Types : is_callable_v(T) = ExpectedCallable(T.name)

C12_Witness ==
    /\ last.op = "ctor_generic"
    /\ last.func = "multiplier"
    /\ returned = RetBuild(TRUE)
    /\ m_invokationList[last.self] = <<obj("multiply")>>

\* A struct without a call operator was handed over and rejected.
C12_WitnessRejected ==
    /\ last.op = "ctor_generic"
    /\ last.func = "plain"
    /\ returned = RetBuild(FALSE)

\* C13: adding a delegate to itself, d.add(d) or d += d, ends without
\* failure and leaves the list equal to the previous list followed by one
\* copy of the previous list, the length exactly doubled.
C13_SelfAddDoubles ==
    [][ (last'.op = "add_delegate" /\ last'.self = last'.other) =>
          LET v == m_invokationList[last'.self]
          IN  /\ failed' = FALSE
              /\ m_invokationList'[last'.self] = v \o v
              /\ Len(m_invokationList'[last'.self]) = 2 * Len(v)
              /\ returned' = RetRef(last'.self) ]_vars

\* The calls invoke is to make for the list it started with.
StartCalls ==
    [k \in 1..Len(frame.start) |-> CallOf(frame.start, k - 1, frame.params)]

\* The wrappers of v change no list when they are called.
Plain(v) == \A k \in 1..Len(v) : v[k] \notin ReentrantCallables

\* Executed step by step, invoke of a list of wrappers that change no list
\* makes the calls and returns the value of invoke(v, params).
StepwiseInvokeAgrees ==
    [][ (last'.op = "invoke_end" /\ Plain(frame.start)) =>
          LET r == invoke(frame.start, frame.params)
          IN  /\ ~r.threw
              /\ calls' = r.calls
              /\ returned' = RetValue(r.value)
              /\ m_invokationList'[frame.self] = frame.start ]_vars

\* C14: while an invoke is in progress the position it calls next is a
\* valid position of the current list, and the invoke calls exactly the
\* wrappers that were in the list when it started, each once and in order,
\* also when a wrapper called earlier in the same invoke calls add, remove
\* or clear on the delegate being invoked.
C14_InvokeSafeUnderReentrantChange ==
    [][ /\ last'.op \in {"invoke_begin", "invoke_step", "invoke_end"} =>
               ~failed'
        /\ frame'.active =>
               /\ frame'.func_iter < Len(m_invokationList'[frame'.self])
               /\ calls' = SubSeq(StartCalls', 1, frame'.func_iter)
        /\ last'.op = "invoke_end" => calls' = StartCalls ]_vars

====
